---- MODULE Spec2Model ----
(***************************************************************************)
(* Model of __main__.py: a Pulumi program that reads its configuration,    *)
(* declares a VPC, gateway, route table, subnet, association, security     *)
(* group and key pair, polls describe_key_pairs through boto3, and then    *)
(* declares an EC2 instance, a remote command and one stack export.        *)
(*                                                                         *)
(* The program runs top to bottom (variable pc).  A resource constructor   *)
(* only declares (registers) the resource; the orchestration engine        *)
(* creates declared resources on its own schedule, a resource only once    *)
(* every resource its arguments refer to exists (action EngineCreate).     *)
(***************************************************************************)
EXTENDS Integers, Sequences, FiniteSets, TLC

\* ------------------------------------------------------------- bounds

\* At most this many of the six optional settings are present in a
\* configuration drawn by Init.
MaxSupplied == 2

\* ---------------------------------------------------- program constants

max_retries == 5

retry_delay == 5

NotFoundCode == "InvalidKeyPair.NotFound"

\* Error codes a ClientError of describe_key_pairs may carry.
ErrorCodes == {NotFoundCode, "UnauthorizedOperation", "RequestLimitExceeded"}

OptionalSettings ==
  {"instance_type", "ami_id", "vpc_cidr", "subnet_cidr", "region", "boto_profile"}

Settings == OptionalSettings \cup {"instance_name"}

\* The literal after `or` on lines 12-17.
Default(k) ==
  CASE k = "instance_type" -> "t2.micro"
    [] k = "ami_id"        -> "ami-0b72821e2f351e396"
    [] k = "vpc_cidr"      -> "10.0.0.0/16"
    [] k = "subnet_cidr"   -> "10.0.1.0/24"
    [] k = "region"        -> "us-east-1"
    [] k = "boto_profile"  -> "default"

\* A non-empty, non-default value an operator may set for k.
CustomValue(k) ==
  CASE k = "instance_name" -> "demo"
    [] k = "instance_type" -> "t3.large"
    [] k = "ami_id"        -> "ami-custom"
    [] k = "vpc_cidr"      -> "172.16.0.0/16"
    [] k = "subnet_cidr"   -> "172.16.5.0/24"
    [] k = "region"        -> "eu-west-1"
    [] k = "boto_profile"  -> "ops"

\* The stack configurations: a key is absent, set to the empty string, or
\* set to a non-empty value.
Configs ==
  UNION { { [k \in S |-> IF m[k] THEN CustomValue(k) ELSE ""] :
              m \in [S -> BOOLEAN] } :
          S \in { T \in SUBSET Settings :
                    Cardinality(T \cap OptionalSettings) <= MaxSupplied } }

\* Addresses the provider may assign to the instance.
Addresses == {"203.0.113.10"}

VARIABLES
  config,     \* the stack configuration: a function from the keys present
  pc,         \* the statement of __main__.py that runs next
  settings,   \* the module globals of lines 11-17, once read
  declared,   \* resource variable -> constructor arguments, once declared
  created,    \* resources the engine has created
  public_ip,  \* the instance's public address ("" until assigned)
  session,    \* the boto3 session of get_key_pair_material
  attempt,    \* the loop variable of get_key_pair_material
  trace,      \* the describe calls and sleeps of get_key_pair_material
  private_key,\* the value returned by get_key_pair_material
  error,      \* the exception that ended the program
  exports     \* the stack outputs registered by pulumi.export

vars == <<config, pc, settings, declared, created, public_ip, session,
          attempt, trace, private_key, error, exports>>

\* ------------------------------------------------------------ values

NoSettings == [k \in {} |-> ""]

NoSession == [profile_name |-> "", region_name |-> "", open |-> FALSE]

NoMessage == [fmt |-> "", arg |-> 0]

NoError == [type |-> "none", code |-> "", call |-> 0, message |-> NoMessage]

\* What one describe_key_pairs call (the call-th of the run) may produce.
Response(call) ==
  [type |-> "response", code |-> "", call |-> call, message |-> NoMessage]

ClientError(code, call) ==
  [type |-> "ClientError", code |-> code, call |-> call, message |-> NoMessage]

\* An exception of the call that is not a ClientError (e.g. parameter
\* validation, connection failure).
OtherException(call) ==
  [type |-> "BotoCoreError", code |-> "", call |-> call, message |-> NoMessage]

Outcomes(call) ==
  {Response(call), OtherException(call)}
    \cup {ClientError(c, call) : c \in ErrorCodes}

PyNone == [type |-> "None", code |-> "", call |-> 0, message |-> NoMessage]

NotCalled == [type |-> "unset", code |-> "", call |-> 0, message |-> NoMessage]

\* An Output of a declared resource: a handle on a value known only once
\* the engine has created the resource, not the value itself.
Output(r, attr) == [kind |-> "Output", of |-> <<r, attr>>]

\* A plain Python string, kept as the parts an f-string joins.
Str(prefix, suffix) == [kind |-> "str", of |-> <<prefix, suffix>>]

\* ------------------------------------------------------ configuration

\* config.get(key): the value as an option, <<>> standing for None.
Get(c, k) == IF k \in DOMAIN c THEN <<c[k]>> ELSE <<>>


\* Mutant: only None falls back to the default, an empty string is kept.
OrNoneOnly(x, d) == IF x = <<>> THEN d ELSE x[1]

\* Python's `x or d` on an optional string: d when x is None or empty.
Or(x, d) == IF x = <<>> \/ x = <<"">> THEN d ELSE x[1]

\* config.require(key) raises when the key is missing.
RequireRaises(c, k) == Get(c, k) = <<>>

ConfigMissingError ==
  [type |-> "ConfigMissingError", code |-> "instance_name", call |-> 0,
   message |-> NoMessage]

\* Lines 11-17 when require succeeds.
ReadSettings(c) ==
  [k \in Settings |->
     IF k = "instance_name" THEN Get(c, k)[1] ELSE Or(Get(c, k), Default(k))]

\* ------------------------------------------------ resource arguments

Tags(suffix) == [Name |-> <<settings.instance_name, suffix>>, Project |-> "DiceDB"]

VpcArgs ==
  [type |-> "aws.ec2.Vpc", name |-> "dice-vpc", refs |-> {},
   props |-> [cidr_block |-> settings.vpc_cidr, enable_dns_hostnames |-> TRUE,
              enable_dns_support |-> TRUE, tags |-> Tags("-vpc")]]

IgwArgs ==
  [type |-> "aws.ec2.InternetGateway", name |-> "dice-igw", refs |-> {"vpc"},
   props |-> [vpc_id |-> Output("vpc", "id"), tags |-> Tags("-igw")]]

RouteTableArgs ==
  [type |-> "aws.ec2.RouteTable", name |-> "dice-rt", refs |-> {"vpc", "igw"},
   props |-> [vpc_id |-> Output("vpc", "id"),
              routes |-> <<[cidr_block |-> "0.0.0.0/0",
                            gateway_id |-> Output("igw", "id")]>>,
              tags |-> Tags("-rt")]]

SubnetArgs ==
  [type |-> "aws.ec2.Subnet", name |-> "dice-subnet", refs |-> {"vpc"},
   props |-> [vpc_id |-> Output("vpc", "id"), cidr_block |-> settings.subnet_cidr,
              map_public_ip_on_launch |-> TRUE, tags |-> Tags("-subnet")]]

RouteTableAssociationArgs ==
  [type |-> "aws.ec2.RouteTableAssociation", name |-> "dice-rta",
   refs |-> {"subnet", "route_table"},
   props |-> [subnet_id |-> Output("subnet", "id"),
              route_table_id |-> Output("route_table", "id")]]


\* Mutant: the service port rule is left out.
IngressSshOnly ==
  << [description |-> "SSH from anywhere", from_port |-> 22, to_port |-> 22,
      protocol |-> "tcp", cidr_blocks |-> <<"0.0.0.0/0">>] >>

Ingress ==
  << [description |-> "SSH from anywhere", from_port |-> 22, to_port |-> 22,
      protocol |-> "tcp", cidr_blocks |-> <<"0.0.0.0/0">>],
     [description |-> "DiceDB port", from_port |-> 7379, to_port |-> 7379,
      protocol |-> "tcp", cidr_blocks |-> <<"0.0.0.0/0">>] >>

Egress ==
  << [from_port |-> 0, to_port |-> 0, protocol |-> "-1",
      cidr_blocks |-> <<"0.0.0.0/0">>] >>

SecurityGroupArgs ==
  [type |-> "aws.ec2.SecurityGroup", name |-> "dice-sg", refs |-> {"vpc"},
   props |-> [description |-> "Allow inbound traffic for DiceDB",
              vpc_id |-> Output("vpc", "id"),
              ingress |-> Ingress, egress |-> Egress, tags |-> Tags("-sg")]]

KeyPairArgs ==
  [type |-> "aws.ec2.KeyPair", name |-> "dice-keypair", refs |-> {},
   props |-> [key_name |-> Str(settings.instance_name, "-keypair")]]


\* Mutant: the key name is spelled out again instead of taken from key_pair,
\* so the instance no longer refers to the key pair.
InstanceArgsLiteralKeyName ==
  [type |-> "aws.ec2.Instance", name |-> "dicedb",
   refs |-> {"subnet", "security_group"},
   props |-> [instance_type |-> settings.instance_type, ami |-> settings.ami_id,
              subnet_id |-> Output("subnet", "id"),
              vpc_security_group_ids |-> <<Output("security_group", "id")>>,
              key_name |-> Str(settings.instance_name, "-keypair"),
              tags |-> Tags("")]]

InstanceArgs ==
  [type |-> "aws.ec2.Instance", name |-> "dicedb",
   refs |-> {"subnet", "security_group", "key_pair"},
   props |-> [instance_type |-> settings.instance_type, ami |-> settings.ami_id,
              subnet_id |-> Output("subnet", "id"),
              vpc_security_group_ids |-> <<Output("security_group", "id")>>,
              key_name |-> Output("key_pair", "key_name"),
              tags |-> Tags("")]]

SetupDiceArgs ==
  [type |-> "command.remote.Command", name |-> "setup-dice", refs |-> {"instance"},
   props |-> [connection |-> [host |-> Output("instance", "public_ip"),
                              user |-> "ec2-user",
                              private_key |-> private_key],
              create |-> "set -e; install and start dicedb"]]

\* ------------------------------------------------------------ program

Init ==
  /\ config \in Configs
  /\ pc = "config"
  /\ settings = NoSettings
  /\ declared = [r \in {} |-> VpcArgs]
  /\ created = {}
  /\ public_ip = ""
  /\ session = NoSession
  /\ attempt = 0
  /\ trace = <<>>
  /\ private_key = NotCalled
  /\ error = NoError
  /\ exports = [n \in {} |-> Output("", "")]



\* Mutant: instance_name is read with get and a fallback, like the others.
ReadConfigOptionalName ==
  /\ pc = "config"
  /\ settings' = [k \in Settings |->
                    Or(Get(config, k), IF k = "instance_name" THEN "dicedb"
                                                              ELSE Default(k))]
  /\ pc' = "vpc"
  /\ UNCHANGED <<config, declared, created, public_ip, session, attempt,
                 trace, private_key, error, exports>>

\* Lines 10-17.
ReadConfig ==
  /\ pc = "config"
  /\ IF RequireRaises(config, "instance_name")
       THEN /\ error' = ConfigMissingError
            /\ pc' = "failed"
            /\ UNCHANGED settings
       ELSE /\ settings' = ReadSettings(config)
            /\ pc' = "vpc"
            /\ UNCHANGED error
  /\ UNCHANGED <<config, declared, created, public_ip, session, attempt,
                 trace, private_key, exports>>

\* A resource constructor: registers the resource with its arguments and
\* returns at once; the statement after it runs next.
Declare(at, r, args, next) ==
  /\ pc = at
  /\ declared' = declared @@ (r :> args)
  /\ pc' = next
  /\ UNCHANGED <<config, settings, created, public_ip, session, attempt,
                 trace, private_key, error, exports>>

DeclareVpc == Declare("vpc", "vpc", VpcArgs, "igw")

DeclareIgw == Declare("igw", "igw", IgwArgs, "route_table")

DeclareRouteTable == Declare("route_table", "route_table", RouteTableArgs, "subnet")

DeclareSubnet == Declare("subnet", "subnet", SubnetArgs, "route_table_association")

DeclareRouteTableAssociation ==
  Declare("route_table_association", "route_table_association",
          RouteTableAssociationArgs, "security_group")

DeclareSecurityGroup ==
  Declare("security_group", "security_group", SecurityGroupArgs, "key_pair")

DeclareKeyPair == Declare("key_pair", "key_pair", KeyPairArgs, "private_key")

DeclareInstance == Declare("instance", "instance", InstanceArgs, "setup_dice")

DeclareSetupDice == Declare("setup_dice", "setup_dice", SetupDiceArgs, "export")

\* ------------------------------------------- get_key_pair_material

\* The argument of the call on line 116: key_pair.key_name.
KeyNameArgument == Output("key_pair", "key_name")

\* Line 116 enters the function; lines 95-98 and the first `for` step.
CallGetKeyPairMaterial ==
  /\ pc = "private_key"
  /\ session' = [profile_name |-> settings.boto_profile,
                 region_name |-> settings.region, open |-> TRUE]
  /\ attempt' = 0
  /\ pc' = IF 0 < max_retries THEN "describe" ELSE "instance"
  /\ private_key' = IF 0 < max_retries THEN private_key ELSE PyNone
  /\ UNCHANGED <<config, settings, declared, created, public_ip, trace,
                 error, exports>>


\* Mutant: every ClientError is taken for the retryable one.
IsAnyClientError(e) == e.type = "ClientError"

\* Line 106.
IsNotFound(e) == e.type = "ClientError" /\ e.code = NotFoundCode


\* Mutant: gives up one attempt early.
MoreAttemptsShort(a) == a < max_retries - 2

\* Mutant: sleeps and goes on after the last attempt too.
MoreAttemptsAlways(a) == a <= max_retries - 1

\* Line 107.
MoreAttempts(a) == a < max_retries - 1

\* Line 111.
RetriesExhausted ==
  [type |-> "Exception", code |-> "", call |-> 0,
   message |-> [fmt |-> "Failed to retrieve key pair after {} attempts",
                arg |-> max_retries]]

\* Mutant: the exception is recorded but does not stop the program.
RaiseAndGoOn(e) ==
  /\ error' = e
  /\ pc' = "instance"

\* Lines 111 and 113: the exception leaves the function and, uncaught at
\* line 116, ends the program: no later statement runs.
Raise(e) ==
  /\ error' = e
  /\ pc' = "failed"

DescribeEntry(o) ==
  [op |-> "describe", seconds |-> 0, attempt |-> attempt,
   key_name |-> KeyNameArgument,
   key_pair_created |-> "key_pair" \in created, outcome |-> o]

SleepEntry ==
  [op |-> "sleep", seconds |-> retry_delay, attempt |-> attempt,
   key_name |-> KeyNameArgument,
   key_pair_created |-> "key_pair" \in created, outcome |-> PyNone]

NumDescribes == Cardinality({i \in 1..Len(trace) : trace[i].op = "describe"})

\* Lines 101-113: one describe_key_pairs call and what the loop body does
\* with its outcome.
DescribeKeyPairs ==
  /\ pc = "describe"
  /\ \E o \in Outcomes(NumDescribes + 1) :
       /\ trace' = Append(trace, DescribeEntry(o))
       /\ IF o.type = "response"
            THEN /\ private_key' = o
                 /\ pc' = "instance"
                 /\ UNCHANGED error
            ELSE IF IsNotFound(o)
              THEN IF MoreAttempts(attempt)
                     THEN /\ pc' = "sleep"
                          /\ UNCHANGED <<private_key, error>>
                     ELSE Raise(RetriesExhausted) /\ UNCHANGED private_key
              ELSE Raise(o) /\ UNCHANGED private_key
  /\ UNCHANGED <<config, settings, declared, created, public_ip, session,
                 attempt, exports>>

\* Lines 108-109 and the next `for` step: when the range is used up the
\* function falls off its end and returns None.
Sleep ==
  /\ pc = "sleep"
  /\ trace' = Append(trace, SleepEntry)
  /\ attempt' = attempt + 1
  /\ IF attempt + 1 < max_retries
       THEN pc' = "describe" /\ UNCHANGED private_key
       ELSE pc' = "instance" /\ private_key' = PyNone
  /\ UNCHANGED <<config, settings, declared, created, public_ip, session,
                 error, exports>>

\* Line 167.
Export ==
  /\ pc = "export"
  /\ exports' = exports @@ ("instance_public_ip" :> Output("instance", "public_ip"))
  /\ pc' = "done"
  /\ UNCHANGED <<config, settings, declared, created, public_ip, session,
                 attempt, trace, private_key, error>>

\* ------------------------------------------------------------- engine

\* The resources the arguments of r refer to.
DependsOn(r) == declared[r].refs

\* The engine creates a declared resource once everything it refers to
\* exists; creating the instance assigns its public address.
EngineCreate ==
  /\ \E r \in DOMAIN declared \ created :
       /\ DependsOn(r) \subseteq created
       /\ created' = created \cup {r}
       /\ IF r = "instance"
            THEN \E a \in Addresses : public_ip' = a
            ELSE UNCHANGED public_ip
  /\ UNCHANGED <<config, pc, settings, declared, session, attempt, trace,
                 private_key, error, exports>>

Next ==
  \/ ReadConfig
  \/ DeclareVpc
  \/ DeclareIgw
  \/ DeclareRouteTable
  \/ DeclareSubnet
  \/ DeclareRouteTableAssociation
  \/ DeclareSecurityGroup
  \/ DeclareKeyPair
  \/ CallGetKeyPairMaterial
  \/ DescribeKeyPairs
  \/ Sleep
  \/ DeclareInstance
  \/ DeclareSetupDice
  \/ Export
  \/ EngineCreate

Spec == Init /\ [][Next]_vars

\* ------------------------------------------------------------- claims

\* The describe calls of get_key_pair_material so far, in order.
Describes == SelectSeq(trace, LAMBDA e : e.op = "describe")

RECURSIVE SumSeconds(_)
SumSeconds(t) == IF t = <<>> THEN 0 ELSE Head(t).seconds + SumSeconds(Tail(t))

\* get_key_pair_material is no longer running.
PollOver == pc \notin {"describe", "sleep"}

\* get_key_pair_material ended with an exception.
PollFailed == error.type \in {"Exception", "ClientError", "BotoCoreError"}

NotFoundOutcome(o) == o.type = "ClientError" /\ o.code = "InvalidKeyPair.NotFound"

\* C1: for every k in 0..4, when the first k describe calls fail with
\* InvalidKeyPair.NotFound and call k+1 succeeds, the function returns the
\* response of call k+1 after exactly k+1 describe calls; no run issues more
\* than 5 describe calls.  For call k+1 to be able to succeed it has to be
\* made: after k <= 4 NotFound failures the function is still polling.
C1_SucceedsAfterKNotFound ==
  /\ Len(Describes) <= 5
  /\ \A k \in 1..4 :
       ( /\ Len(Describes) = k
         /\ \A i \in 1..k : NotFoundOutcome(Describes[i].outcome) )
       => pc \in {"sleep", "describe"} /\ error = NoError
  /\ \A k \in 0..4 :
       ( /\ Len(Describes) >= k + 1
         /\ \A i \in 1..k : NotFoundOutcome(Describes[i].outcome)
         /\ Describes[k + 1].outcome.type = "response" )
       => /\ Len(Describes) = k + 1
          /\ private_key = Describes[k + 1].outcome
          /\ private_key.call = k + 1
          /\ error = NoError
          /\ PollOver /\ pc # "failed"

\* Four NotFound failures, then the fifth call succeeds and is returned.
C1_Witness ==
  /\ Len(Describes) = 5
  /\ \A i \in 1..4 : NotFoundOutcome(Describes[i].outcome)
  /\ Describes[5].outcome.type = "response"
  /\ private_key = Describes[5].outcome

\* C2: when every describe call fails with InvalidKeyPair.NotFound, the
\* function ends after exactly 5 describe calls with the terminal error whose
\* message names 5 attempts, and returns no value.
C2_ExhaustedAfterFive ==
  ( /\ PollOver
    /\ Len(Describes) >= 1
    /\ \A i \in 1..Len(Describes) : NotFoundOutcome(Describes[i].outcome) )
  => /\ Len(Describes) = 5
     /\ pc = "failed"
     /\ error.type = "Exception"
     /\ error.message.fmt = "Failed to retrieve key pair after {} attempts"
     /\ error.message.arg = 5
     /\ private_key = NotCalled

C2_Witness ==
  /\ pc = "failed"
  /\ error.type = "Exception"
  /\ Len(Describes) = 5
  /\ \A i \in 1..5 : NotFoundOutcome(Describes[i].outcome)

\* C3: a describe call that fails with anything other than
\* InvalidKeyPair.NotFound, on the first or on a later call, ends the function
\* at once with that same error: it is the last describe call and the last
\* entry of the trace (no sleep follows it).
C3_OtherErrorPropagates ==
  \A i \in 1..Len(trace) :
    ( /\ trace[i].op = "describe"
      /\ trace[i].outcome.type # "response"
      /\ ~NotFoundOutcome(trace[i].outcome) )
    => /\ i = Len(trace)
       /\ error = trace[i].outcome
       /\ pc = "failed"
       /\ private_key = NotCalled

\* A different error code on the third call, after two retried failures.
C3_Witness ==
  /\ Len(Describes) = 3
  /\ Describes[3].outcome.type = "ClientError"
  /\ Describes[3].outcome.code = "UnauthorizedOperation"
  /\ error = Describes[3].outcome

\* C4: no describe call is issued before the engine has created the key
\* pair, and the name passed to it is the key pair's resolved name (a
\* string), not an unresolved handle.
C4_DescribeAfterKeyPairCreated ==
  \A i \in 1..Len(Describes) :
    /\ Describes[i].key_pair_created
    /\ Describes[i].key_name.kind = "str"

\* C5: when instance_name is missing, the program ends with a configuration
\* error with nothing declared, created, described or exported.
C5_MissingNameFailsFirst ==
  ("instance_name" \notin DOMAIN config /\ pc # "config")
  => /\ pc = "failed"
     /\ error.type = "ConfigMissingError"
     /\ DOMAIN declared = {}
     /\ created = {}
     /\ trace = <<>>
     /\ ~session.open
     /\ DOMAIN exports = {}

C5_Witness ==
  /\ "instance_name" \notin DOMAIN config
  /\ pc = "failed"
  /\ error.type = "ConfigMissingError"

\* What the claim says must exist before r is created.
C6_Parents(r) ==
  CASE r = "igw"                     -> {"vpc"}
    [] r = "route_table"             -> {"vpc", "igw"}
    [] r = "subnet"                  -> {"vpc"}
    [] r = "security_group"          -> {"vpc"}
    [] r = "route_table_association" -> {"subnet", "route_table"}
    [] r = "instance"                -> {"subnet", "security_group", "key_pair"}
    [] r = "setup_dice"              -> {"instance"}
    [] OTHER                         -> {}

\* C6: every step that creates a resource finds all the resources it
\* depends on already created, and the remote session is created only when
\* the instance exists and has a public address.
C6_CreatedAfterParents ==
  [][ \A r \in created' \ created :
        /\ C6_Parents(r) \subseteq created
        /\ (r = "setup_dice" => public_ip # "") ]_vars

C6_Witness ==
  /\ "setup_dice" \in created
  /\ "route_table_association" \in created

\* C7: every sleep lasts 5 seconds and stands between two describe
\* attempts (one before it, one after it or about to be made), and the
\* sleeps of a run add up to at most 25 seconds.
C7_SleepsBetweenAttempts ==
  /\ SumSeconds(trace) <= 25
  /\ \A i \in 1..Len(trace) :
       trace[i].op = "sleep" =>
         /\ trace[i].seconds = 5
         /\ i > 1 /\ trace[i - 1].op = "describe"
         /\ IF i < Len(trace) THEN trace[i + 1].op = "describe"
                              ELSE pc = "describe"

\* The longest wait: four sleeps, then the last attempt fails.
C7_Witness ==
  /\ pc = "failed"
  /\ Len(Describes) = 5
  /\ SumSeconds(trace) = 20

C8_Rule(r) ==
  [from_port |-> r.from_port, to_port |-> r.to_port, protocol |-> r.protocol,
   cidr_blocks |-> r.cidr_blocks]

\* C8: whatever the configuration, the declared security group has exactly
\* two inbound rules, TCP 22 and TCP 7379 from 0.0.0.0/0, and exactly one
\* outbound rule, all protocols and ports to 0.0.0.0/0.
C8_SecurityGroupRules ==
  "security_group" \in DOMAIN declared =>
    LET p == declared["security_group"].props IN
      /\ Len(p.ingress) = 2
      /\ { C8_Rule(p.ingress[i]) : i \in 1..2 } =
           { [from_port |-> 22, to_port |-> 22, protocol |-> "tcp",
              cidr_blocks |-> <<"0.0.0.0/0">>],
             [from_port |-> 7379, to_port |-> 7379, protocol |-> "tcp",
              cidr_blocks |-> <<"0.0.0.0/0">>] }
      /\ Len(p.egress) = 1
      /\ C8_Rule(p.egress[1]) =
           [from_port |-> 0, to_port |-> 0, protocol |-> "-1",
            cidr_blocks |-> <<"0.0.0.0/0">>]

\* The security group is declared under a configuration that sets the
\* network ranges.
C8_Witness ==
  /\ "security_group" \in DOMAIN declared
  /\ {"vpc_cidr", "subnet_cidr"} \subseteq DOMAIN config
  /\ config["vpc_cidr"] # ""

\* The documented defaults.
C9_Documented(k) ==
  CASE k = "instance_type" -> "t2.micro"
    [] k = "ami_id"        -> "ami-0b72821e2f351e396"
    [] k = "vpc_cidr"      -> "10.0.0.0/16"
    [] k = "subnet_cidr"   -> "10.0.1.0/24"
    [] k = "region"        -> "us-east-1"
    [] k = "boto_profile"  -> "default"

\* The settings as the program uses them are the values `want` gives.
C9_Uses(want) ==
  /\ settings # NoSettings =>
       \A k \in OptionalSettings : settings[k] = want[k]
  /\ "vpc" \in DOMAIN declared =>
       declared["vpc"].props.cidr_block = want["vpc_cidr"]
  /\ "subnet" \in DOMAIN declared =>
       declared["subnet"].props.cidr_block = want["subnet_cidr"]
  /\ "instance" \in DOMAIN declared =>
       /\ declared["instance"].props.instance_type = want["instance_type"]
       /\ declared["instance"].props.ami = want["ami_id"]
  /\ session.open =>
       /\ session.region_name = want["region"]
       /\ session.profile_name = want["boto_profile"]

C9_SuppliedOrDefault(k) ==
  IF k \in DOMAIN config THEN config[k] ELSE C9_Documented(k)

C9_NonEmptyOrDefault(k) ==
  IF k \in DOMAIN config /\ config[k] # "" THEN config[k] ELSE C9_Documented(k)

\* C9 as stated: an absent setting resolves to its documented default and
\* every supplied setting resolves to the supplied value.
C9_Original ==
  C9_Uses([k \in OptionalSettings |-> C9_SuppliedOrDefault(k)])

\* C9 as amended: a setting that is absent or supplied as the empty string
\* resolves to its documented default, and every setting supplied with a
\* non-empty value resolves to the supplied value.
C9_DefaultsUnlessNonEmpty ==
  C9_Uses([k \in OptionalSettings |-> C9_NonEmptyOrDefault(k)])

\* One setting supplied empty and one supplied non-empty, both in use.
C9_Witness ==
  /\ pc = "done"
  /\ DOMAIN config = {"instance_name", "instance_type", "region"}
  /\ config["instance_type"] = "" /\ settings["instance_type"] = "t2.micro"
  /\ config["region"] = "eu-west-1" /\ session.region_name = "eu-west-1"
  /\ settings["ami_id"] = "ami-0b72821e2f351e396"

\* C10: once the poll has ended with an error the program has stopped: the
\* instance and the remote command are neither declared nor created, nothing
\* is exported and no address is assigned, while the seven resources before
\* the poll are declared.
C10_PollErrorStopsProgram ==
  PollFailed =>
    /\ pc = "failed"
    /\ {"instance", "setup_dice"} \cap DOMAIN declared = {}
    /\ {"instance", "setup_dice"} \cap created = {}
    /\ DOMAIN exports = {}
    /\ public_ip = ""
    /\ DOMAIN declared =
         {"vpc", "igw", "route_table", "subnet", "route_table_association",
          "security_group", "key_pair"}

\* Retries exhausted, and the engine has created all that was declared.
C10_Witness ==
  /\ PollFailed
  /\ error.type = "Exception"
  /\ created = DOMAIN declared
  /\ "key_pair" \in created

====
